---- MODULE Spec2Model ----
(***************************************************************************)
(* A model of rust-bpe (src/rust_bpe/src/lib.rs): the Vocabulary registry, *)
(* the learning loop of Vocabulary::learn, the digram counter, the top-n   *)
(* selector and the cached decoder.                                        *)
(*                                                                         *)
(* A char is its Unicode scalar value; a String is a sequence of chars.    *)
(* A HashMap is a function with a finite domain; Option<T> is a sequence   *)
(* of length 0 (None) or 1 (Some).  The iteration order of a HashMap is    *)
(* unspecified, so every iteration over one is a choice over all orders.   *)
(***************************************************************************)
EXTENDS Integers, Sequences, FiniteSets, TLC

\* ------------------------------------------------------------------ bounds

\* Longest text given to learn in the API specification (Spec).
MaxText == 2
\* Longest text given to learn in the learning specification (SpecLearn).
MaxLearnText == 4
\* Largest merges, replacements and cutoff arguments given to learn.
MaxMerges == 2
MaxReplacements == 2
MaxCutoff == 1
\* Direct push/new_id calls grow the vocabulary up to this size: in Spec,
\* where learn is called too, and in SpecRegistry.
MaxDirect == 2
MaxSize == 3
\* Bounds of the count tables handed to top_n_digrams in SpecSelect.
MaxCount == 2
MaxN == 2
\* Largest n given to print_top_n_tokens.
MaxPrint == 1
\* Longest text given to learn on a Vocabulary that already holds symbols
\* (SpecReuse).
MaxReuseText == 3

\* ------------------------------------------------------- program constants

\* tests/token_decoding.rs: learn(&input_data, 10)
ScenarioMerges == 10
\* main.rs: let replacements = 1; let cutoff = 1;
DefaultReplacements == 1
DefaultCutoff == 1

\* ------------------------------------------------------------------ values

\* Option<T>
None == << >>
Some(x) == << x >>
is_none(o) == Len(o) = 0
unwrap(o) == o[1]

\* HashMap::new()
EmptyMap == << >>
\* HashMap::insert(k, v)
insert(map, k, v) == [x \in DOMAIN map \cup {k} |-> IF x = k THEN v ELSE map[x]]

\* enum Token
Unit(ch) == << "Unit", ch >>
Composition(left, right) == << "Composition", left, right >>
IsUnit(tkn) == tkn[1] = "Unit"

\* The characters of the texts: 'a', 'b', 'c', 'd'.
ChA == 97
ChB == 98
ChC == 99
ChD == 100
Chars == {ChA, ChB}

\* tests/sample/sample_5.txt as the test asserts it: "aaabdaaabac"
Sample5 == << ChA, ChA, ChA, ChB, ChD, ChA, ChA, ChA, ChB, ChA, ChC >>

\* All strings over cs of length at most n.
Strings(cs, n) == UNION {[1..k -> cs] : k \in 0..n}

\* All orders in which an iteration can visit the keys S of a HashMap.
RECURSIVE IterationOrders(_)
IterationOrders(S) ==
  IF S = {} THEN {<< >>}
  ELSE UNION {{<< x >> \o p : p \in IterationOrders(S \ {x})} : x \in S}

\* ------------------------------------------------------------- Vocabulary

\* Vocabulary::new
NewVocabulary == [tkns |-> EmptyMap, ids |-> EmptyMap, size |-> 0]

\* push with the entry always taken as vacant: no deduplication.
push_always(v, tkn) ==
  [tkns |-> insert(v.tkns, v.size, tkn),
   ids |-> insert(v.ids, tkn, v.size),
   size |-> v.size + 1,
   id |-> v.size]

\* push with the size left as it was: the next symbol gets the same id.
push_no_grow(v, tkn) ==
  LET vacant == tkn \notin DOMAIN v.ids
      id == IF vacant THEN v.size ELSE v.ids[tkn]
  IN [tkns |-> insert(v.tkns, id, tkn),
      ids |-> IF vacant THEN insert(v.ids, tkn, v.size) ELSE v.ids,
      size |-> v.size,
      id |-> id]

\* A push that allocates the id without the entry of tkns.
push_no_tkns(v, tkn) ==
  LET vacant == tkn \notin DOMAIN v.ids
  IN [tkns |-> v.tkns,
      ids |-> IF vacant THEN insert(v.ids, tkn, v.size) ELSE v.ids,
      size |-> IF vacant THEN v.size + 1 ELSE v.size,
      id |-> IF vacant THEN v.size ELSE v.ids[tkn]]

\* Vocabulary::push: the vocabulary after the call and the id returned.
push(v, tkn) ==
  LET next_id == v.size
      vacant == tkn \notin DOMAIN v.ids
      id == IF vacant THEN next_id ELSE v.ids[tkn]
  IN [tkns |-> insert(v.tkns, id, tkn),
      ids |-> IF vacant THEN insert(v.ids, tkn, next_id) ELSE v.ids,
      size |-> IF vacant THEN v.size + 1 ELSE v.size,
      id |-> id]

\* new_id without its check of the operands.
new_id_unchecked(v, diagram) ==
  LET p == push(v, Composition(diagram[1], diagram[2]))
  IN [tkns |-> p.tkns, ids |-> p.ids, size |-> p.size, id |-> Some(p.id)]

\* Vocabulary::new_id: Some(id) with the vocabulary after the push, or None
\* with the vocabulary as it was.
new_id(v, diagram) ==
  LET idleft == diagram[1]
      idright == diagram[2]
  IN IF idleft \in DOMAIN v.tkns /\ idright \in DOMAIN v.tkns
     THEN LET p == push(v, Composition(idleft, idright))
          IN [tkns |-> p.tkns, ids |-> p.ids, size |-> p.size, id |-> Some(p.id)]
     ELSE [tkns |-> v.tkns, ids |-> v.ids, size |-> v.size, id |-> None]

\* Vocabulary::decode_single, run on call stack of the given depth.  The
\* result is the text appended, or the way the call ends the program: the
\* expect() on an unregistered id panics ("UnknownSymbol"); a call nested
\* deeper than the number of registered ids is on a cycle of the symbol
\* table and never returns, so the stack overflows ("StackOverflow").
RECURSIVE decode_single(_, _, _)
decode_single(tkns, id, depth) ==
  IF id \notin DOMAIN tkns THEN [fault |-> "UnknownSymbol", str |-> << >>]
  ELSE IF depth > Cardinality(DOMAIN tkns)
  THEN [fault |-> "StackOverflow", str |-> << >>]
  ELSE LET tkn == tkns[id]
       IN IF IsUnit(tkn) THEN [fault |-> "none", str |-> << tkn[2] >>]
          ELSE LET l == decode_single(tkns, tkn[2], depth + 1)
               IN IF l.fault # "none" THEN l
                  ELSE LET r == decode_single(tkns, tkn[3], depth + 1)
                       IN IF r.fault # "none" THEN r
                          ELSE [fault |-> "none", str |-> l.str \o r.str]

\* Vocabulary::decode, lines 88-99: the cache built from every registered id.
BuildCache(tkns) == [id \in DOMAIN tkns |-> decode_single(tkns, id, 1).str]

\* The cache rebuilt on every call.
cache_rebuilt(id_to_string, tkns) == BuildCache(tkns)

\* Vocabulary::decode, lines 88-99: the cache the call reads; it is built
\* only when there is none.
cache_used(id_to_string, tkns) ==
  IF is_none(id_to_string) THEN BuildCache(tkns) ELSE unwrap(id_to_string)

\* The ways building the cache can end the program (one per id whose
\* expansion does not return; which is met first depends on the iteration).
BuildFaults(tkns) ==
  {decode_single(tkns, id, 1).fault : id \in DOMAIN tkns} \ {"none"}

\* Vocabulary::decode, lines 100-104: the text pushed for ids[i..].
RECURSIVE decode_loop(_, _, _)
decode_loop(cache, ids, i) ==
  IF i > Len(ids) THEN << >>
  ELSE (IF ids[i] \in DOMAIN cache THEN cache[ids[i]] ELSE << >>)
       \o decode_loop(cache, ids, i + 1)

\* Vocabulary::preinitialize_vocabulary on text_data[i..]: the vocabulary
\* after the pushes and the ids pushed to converted_text.
RECURSIVE preinitialize_vocabulary(_, _, _)
preinitialize_vocabulary(v, text_data, i) ==
  IF i > Len(text_data)
  THEN [tkns |-> v.tkns, ids |-> v.ids, size |-> v.size, converted_text |-> << >>]
  ELSE LET p == push(v, Unit(text_data[i]))
           rest == preinitialize_vocabulary(p, text_data, i + 1)
       IN [tkns |-> rest.tkns, ids |-> rest.ids, size |-> rest.size,
           converted_text |-> << p.id >> \o rest.converted_text]

\* ------------------------------------------------- counting and selection

\* digram_count on the windows text[i], text[i+1] onward: every window adds
\* one to its pair's entry of id_to_count, or inserts 1.
RECURSIVE digram_count(_, _, _)
digram_count(text, id_to_count, i) ==
  IF i + 1 > Len(text) THEN id_to_count
  ELSE LET pair == << text[i], text[i + 1] >>
           count == IF pair \in DOMAIN id_to_count THEN id_to_count[pair] + 1 ELSE 1
       IN digram_count(text, insert(id_to_count, pair, count), i + 1)

\* slice::sort_by_key, a stable sort: x goes after the entries whose key is
\* not larger.
RECURSIVE sort_by_key(_)
InsertSorted(sorted, x) ==
  LET before == SelectSeq(sorted, LAMBDA y : y[2] <= x[2])
      after == SelectSeq(sorted, LAMBDA y : y[2] > x[2])
  IN before \o << x >> \o after
sort_by_key(seq) ==
  IF seq = << >> THEN << >>
  ELSE InsertSorted(sort_by_key(SubSeq(seq, 1, Len(seq) - 1)), seq[Len(seq)])

\* Vec::reverse
reverse(seq) == [i \in 1..Len(seq) |-> seq[Len(seq) + 1 - i]]
\* Vec::truncate
truncate(seq, n) == IF n < Len(seq) THEN SubSeq(seq, 1, n) ELSE seq

\* top_n_digrams keeping the counts that equal min.
top_n_digrams_ge(diagram_to_count, n, min, iter) ==
  LET mapped == [i \in 1..Len(iter) |-> << iter[i], diagram_to_count[iter[i]] >>]
      filtered == SelectSeq(mapped, LAMBDA e : e[2] >= min)
  IN truncate(reverse(sort_by_key(filtered)), n)

\* top_n_digrams without the reverse: the n least common pairs.
top_n_digrams_ascending(diagram_to_count, n, min, iter) ==
  LET mapped == [i \in 1..Len(iter) |-> << iter[i], diagram_to_count[iter[i]] >>]
      filtered == SelectSeq(mapped, LAMBDA e : e[2] > min)
  IN truncate(sort_by_key(filtered), n)

\* top_n_digrams, the HashMap iterated in the order iter.
top_n_digrams(diagram_to_count, n, min, iter) ==
  LET mapped == [i \in 1..Len(iter) |-> << iter[i], diagram_to_count[iter[i]] >>]
      filtered == SelectSeq(mapped, LAMBDA e : e[2] > min)
  IN truncate(reverse(sort_by_key(filtered)), n)

\* The scan ending where no pair is left: a last element that no match
\* consumed is dropped.
RECURSIVE rewrite_no_tail(_, _, _, _)
rewrite_no_tail(text, digram, id, i) ==
  IF i + 1 > Len(text) THEN << >>
  ELSE IF << text[i], text[i + 1] >> = digram
  THEN << id >> \o rewrite_no_tail(text, digram, id, i + 2)
  ELSE << text[i] >> \o rewrite_no_tail(text, digram, id, i + 1)

\* The scan over disjoint chunks of two: it advances by two also where
\* the chunk is not the digram.
RECURSIVE rewrite_chunks(_, _, _, _)
rewrite_chunks(text, digram, id, i) ==
  IF i > Len(text) THEN << >>
  ELSE IF i + 1 > Len(text) THEN << text[i] >>
  ELSE IF << text[i], text[i + 1] >> = digram
  THEN << id >> \o rewrite_chunks(text, digram, id, i + 2)
  ELSE << text[i], text[i + 1] >> \o rewrite_chunks(text, digram, id, i + 2)

\* The scan advancing by one after a match as well.
RECURSIVE rewrite_by_one(_, _, _, _)
rewrite_by_one(text, digram, id, i) ==
  IF i > Len(text) THEN << >>
  ELSE IF i + 1 <= Len(text) /\ << text[i], text[i + 1] >> = digram
  THEN << id >> \o rewrite_by_one(text, digram, id, i + 1)
  ELSE << text[i] >> \o rewrite_by_one(text, digram, id, i + 1)

\* The scan that does not look at the last pair of text.
RECURSIVE rewrite_short_of_end(_, _, _, _)
rewrite_short_of_end(text, digram, id, i) ==
  IF i > Len(text) THEN << >>
  ELSE IF i + 1 < Len(text) /\ << text[i], text[i + 1] >> = digram
  THEN << id >> \o rewrite_short_of_end(text, digram, id, i + 2)
  ELSE << text[i] >> \o rewrite_short_of_end(text, digram, id, i + 1)

\* Vocabulary::learn, lines 158-170: the scan of text from position i that
\* rewrites the digram to new_id.
RECURSIVE rewrite(_, _, _, _)
rewrite(text, digram, id, i) ==
  IF i > Len(text) THEN << >>
  ELSE IF i + 1 <= Len(text) /\ << text[i], text[i + 1] >> = digram
  THEN << id >> \o rewrite(text, digram, id, i + 2)
  ELSE << text[i] >> \o rewrite(text, digram, id, i + 1)

\* ------------------------------------------------------------------ state

VARIABLES
  \* struct Vocabulary
  tkns, ids, size, id_to_string,
  \* Vocabulary::learn: its arguments, its locals, the iteration of its for
  \* loop (round) and the place it has reached (pc)
  data, merges, replacements, cutoff, cur_i, round, text, counts, top_digrams, pc,
  \* the last call made on the Vocabulary, what it returned, the String that
  \* decode filled, the lines print_top_n_tokens printed, and the way the
  \* program was ended by a panic, if it was
  op, ret, s, printed, fault,
  \* history: the distinct tokens in the order push first saw them, whether
  \* decode had been called when learn was called, and the learn calls made
  \* since Vocabulary::new
  order, stale, learns

vocabulary == << tkns, ids, size, id_to_string >>
locals == << data, merges, replacements, cutoff, cur_i, round, text, counts, top_digrams, pc >>
vars == << tkns, ids, size, id_to_string,
           data, merges, replacements, cutoff, cur_i, round, text, counts, top_digrams, pc,
           op, ret, s, printed, fault, order, stale, learns >>

\* The Vocabulary as push, new_id and preinitialize_vocabulary take it.
Self == [tkns |-> tkns, ids |-> ids, size |-> size]

\* The order of first registration after push has been called on tkn_seq[i..].
RECURSIVE Registered(_, _, _)
Registered(seen, tkn_seq, i) ==
  IF i > Len(tkn_seq) THEN seen
  ELSE Registered(IF \E k \in 1..Len(seen) : seen[k] = tkn_seq[i]
                  THEN seen ELSE Append(seen, tkn_seq[i]),
                  tkn_seq, i + 1)

\* No learn call is running and its result is not held: the locals are gone.
NoLearn ==
  /\ pc' = "idle"
  /\ data' = << >> /\ merges' = 0 /\ replacements' = 0 /\ cutoff' = 0
  /\ cur_i' = 0 /\ round' = 0 /\ text' = << >>
  /\ counts' = EmptyMap /\ top_digrams' = << >>
  /\ stale' = FALSE

\* Vocabulary::new
Init ==
  /\ tkns = NewVocabulary.tkns /\ ids = NewVocabulary.ids /\ size = NewVocabulary.size
  /\ id_to_string = None
  /\ pc = "idle"
  /\ data = << >> /\ merges = 0 /\ replacements = 0 /\ cutoff = 0
  /\ cur_i = 0 /\ round = 0 /\ text = << >>
  /\ counts = EmptyMap /\ top_digrams = << >>
  /\ op = << "new" >> /\ ret = None /\ s = << >> /\ printed = << >>
  /\ fault = "none"
  /\ order = << >> /\ stale = FALSE /\ learns = 0

\* A call can be made: the program runs and no learn call is under way.
Callable == fault = "none" /\ pc \in {"idle", "done"}

\* vocab.push(tkn)
Push(tkn) ==
  /\ Callable
  /\ LET p == push(Self, tkn)
     IN /\ tkns' = p.tkns /\ ids' = p.ids /\ size' = p.size
        /\ ret' = Some(p.id)
  /\ op' = << "push", tkn >>
  /\ s' = << >> /\ printed' = << >>
  /\ order' = Registered(order, << tkn >>, 1)
  /\ NoLearn
  /\ UNCHANGED << id_to_string, fault, learns >>

\* vocab.new_id((idleft, idright))
NewId(idleft, idright) ==
  /\ Callable
  /\ LET n == new_id(Self, << idleft, idright >>)
     IN /\ tkns' = n.tkns /\ ids' = n.ids /\ size' = n.size
        /\ ret' = n.id
        /\ order' = IF is_none(n.id) THEN order
                    ELSE Registered(order, << Composition(idleft, idright) >>, 1)
  /\ op' = << "new_id", idleft, idright >>
  /\ s' = << >> /\ printed' = << >>
  /\ NoLearn
  /\ UNCHANGED << id_to_string, fault, learns >>

\* vocab.learn(d, m, r, c), lines 142-145: the vocabulary is preinitialized
\* and the locals are set up.
Learn(d, m, r, c) ==
  /\ Callable
  /\ LET p == preinitialize_vocabulary(Self, d, 1)
     IN /\ tkns' = p.tkns /\ ids' = p.ids /\ size' = p.size
        /\ text' = p.converted_text
  /\ data' = d /\ merges' = m /\ replacements' = r /\ cutoff' = c
  /\ cur_i' = 0 /\ round' = 0
  /\ counts' = EmptyMap /\ top_digrams' = << >>
  /\ pc' = "counting"
  /\ op' = << "learn" >> /\ ret' = None /\ s' = << >> /\ printed' = << >>
  /\ order' = Registered(order, [i \in 1..Len(d) |-> Unit(d[i])], 1)
  /\ stale' = ~is_none(id_to_string)
  /\ learns' = learns + 1
  /\ UNCHANGED << id_to_string, fault >>

\* The loop over 0..=merges, and the check of cur_i made one promotion late.
loop_exit_late(iteration, promotions, budget) ==
  iteration > budget \/ promotions > budget

\* The for loop replaced by a loop that only the budget check ends.
loop_exit_unbounded(iteration, promotions, budget) == promotions = budget

\* Lines 146-149: the for loop over 0..merges is exhausted, or the check of
\* cur_i breaks out of it.
loop_exit(iteration, promotions, budget) ==
  iteration >= budget \/ promotions = budget

\* Lines 146-150: the head of a round; learn returns text, or counts the
\* digrams of text into counts.
Count ==
  /\ fault = "none" /\ pc = "counting"
  /\ IF loop_exit(round, cur_i, merges)
     THEN pc' = "done" /\ counts' = EmptyMap
     ELSE pc' = "selecting" /\ counts' = digram_count(text, counts, 1)
  /\ UNCHANGED << vocabulary, data, merges, replacements, cutoff, cur_i, round,
                  text, top_digrams, op, ret, s, printed, fault, order, stale, learns >>

\* Lines 151-154: the selection, for one iteration order of counts; an empty
\* selection breaks out of the loop and learn returns text.
Select ==
  /\ fault = "none" /\ pc = "selecting"
  /\ \E iter \in IterationOrders(DOMAIN counts) :
       LET top == top_n_digrams(counts, replacements, cutoff, iter)
       IN IF top = << >>
          THEN pc' = "done" /\ top_digrams' = << >> /\ counts' = EmptyMap
          ELSE pc' = "rewriting" /\ top_digrams' = top /\ counts' = counts
  /\ UNCHANGED << vocabulary, data, merges, replacements, cutoff, cur_i, round,
                  text, op, ret, s, printed, fault, order, stale, learns >>

\* A pop that takes the first element of the list.
pop_front(vec) == [item |-> vec[1], vec |-> SubSeq(vec, 2, Len(vec))]

\* Line 155: Vec::pop on a list that is not empty: its last element and the
\* list without it.
pop(vec) == [item |-> vec[Len(vec)], vec |-> SubSeq(vec, 1, Len(vec) - 1)]

\* Lines 155-181: one turn of the while loop; the last selected digram is
\* popped, composed and rewritten in text.
Promote ==
  /\ fault = "none" /\ pc = "rewriting"
  /\ top_digrams # << >>
  /\ LET digram == pop(top_digrams).item
         n == new_id(Self, digram[1])
     IN /\ top_digrams' = pop(top_digrams).vec
        /\ IF is_none(n.id)
           THEN /\ fault' = "UnwrapNone"
                /\ UNCHANGED << tkns, ids, size, text, cur_i, order >>
           ELSE /\ tkns' = n.tkns /\ ids' = n.ids /\ size' = n.size
                /\ text' = rewrite(text, digram[1], unwrap(n.id), 1)
                /\ cur_i' = cur_i + 1
                /\ order' = Registered(order, << Composition(digram[1][1], digram[1][2]) >>, 1)
                /\ fault' = fault
  /\ UNCHANGED << id_to_string, data, merges, replacements, cutoff, round,
                  counts, pc, op, ret, s, printed, stale, learns >>

\* A round end that keeps the counts of the round.
clear_skipped(id_to_count) == id_to_count

\* Line 182: diagram_to_count.clear()
clear(id_to_count) == EmptyMap

\* Lines 155, 182: the selection is used up; counts is cleared and the for
\* loop goes to its next iteration.
RoundEnd ==
  /\ fault = "none" /\ pc = "rewriting"
  /\ top_digrams = << >>
  /\ counts' = clear(counts)
  /\ round' = round + 1
  /\ pc' = "counting"
  /\ UNCHANGED << vocabulary, data, merges, replacements, cutoff, cur_i,
                  text, top_digrams, op, ret, s, printed, fault, order, stale, learns >>

\* vocab.decode(id_seq, &mut String::new())
Decode(id_seq) ==
  /\ Callable
  /\ op' = << "decode", id_seq >>
  /\ ret' = None /\ printed' = << >>
  /\ IF is_none(id_to_string) /\ BuildFaults(tkns) # {}
     THEN /\ fault' \in BuildFaults(tkns)
          /\ UNCHANGED << id_to_string, s >>
     ELSE LET cache == cache_used(id_to_string, tkns)
          IN /\ id_to_string' = Some(cache)
             /\ s' = decode_loop(cache, id_seq, 1)
             /\ fault' = fault
  /\ UNCHANGED << tkns, ids, size, locals, order, stale, learns >>

\* vocab.decode_single(&id, &mut String::new())
DecodeSingle(id) ==
  /\ Callable
  /\ op' = << "decode_single", id >>
  /\ ret' = None /\ printed' = << >>
  /\ LET d == decode_single(tkns, id, 1)
     IN /\ fault' = d.fault
        /\ s' = IF d.fault = "none" THEN d.str ELSE s
  /\ UNCHANGED << vocabulary, locals, order, stale, learns >>

\* print_top_n_tokens, lines 216-218: the ids of the tokens of ids_clone
\* after sort_by_key on the id.  The ids of a map are distinct, so the order
\* in which the keys were collected leaves no trace: the lowest id comes
\* first.
RECURSIVE sorted_ids(_)
sorted_ids(id_set) ==
  IF id_set = {} THEN << >>
  ELSE LET lowest == CHOOSE id \in id_set : \A other \in id_set : id <= other
       IN << lowest >> \o sorted_ids(id_set \ {lowest})

\* Lines 216-220: the sorted ids reversed and cut by take(n).
top_n_tokens(ids_clone, n) ==
  truncate(reverse(sorted_ids({ids_clone[tkn] : tkn \in DOMAIN ids_clone})), n)

\* print_top_n_tokens(&mut vocab, n): one decode of a one-id slice for each
\* of the n highest ids, highest first, each into a String of its own that
\* is printed.  Only the first decode can build the cache, so only it can
\* panic; with nothing to print no decode is called.
PrintTopNTokens(n) ==
  /\ Callable
  /\ op' = << "print_top_n_tokens", n >>
  /\ ret' = None
  /\ LET top == top_n_tokens(ids, n)
     IN IF top = << >>
        THEN /\ printed' = << >>
             /\ UNCHANGED << id_to_string, s, fault >>
        ELSE IF is_none(id_to_string) /\ BuildFaults(tkns) # {}
        THEN /\ fault' \in BuildFaults(tkns)
             /\ printed' = << >>
             /\ UNCHANGED << id_to_string, s >>
        ELSE LET cache == cache_used(id_to_string, tkns)
                 lines == [i \in 1..Len(top) |-> decode_loop(cache, << top[i] >>, 1)]
             IN /\ id_to_string' = Some(cache)
                /\ printed' = lines
                /\ s' = lines[Len(lines)]
                /\ fault' = fault
  /\ UNCHANGED << tkns, ids, size, locals, order, stale, learns >>

\* ---------------------------------------------------------- specifications

\* The tokens and ids a caller of the registry passes: leaves, and
\* compositions of registered and of unregistered ids.
OperandIds == {0, 1}
PushTokens ==
  {Unit(ch) : ch \in Chars} \cup {Composition(l, r) : l, r \in OperandIds}
DecodeInputs ==
  {text} \cup Strings(OperandIds \cup {2}, 2)
\* In Spec: what learn returned, and the first ids in falling order; the
\* decode of one id alone is the one print_top_n_tokens makes.
ApiDecodeInputs ==
  {text, << 2, 1, 0 >>}

\* The call leaves the vocabulary no larger than limit, or as large as it was.
Within(after, limit) == after.size = size \/ after.size <= limit

\* Any sequence of calls on one Vocabulary, with one learn call among them,
\* made with the driver's replacements and no cutoff.
Next ==
  \/ \E tkn \in PushTokens : Within(push(Self, tkn), MaxDirect) /\ Push(tkn)
  \/ \E l, r \in OperandIds :
       Within(new_id(Self, << l, r >>), MaxDirect) /\ NewId(l, r)
  \/ \E d \in Strings(Chars, MaxText), m \in 0..MaxMerges :
       learns = 0 /\ Learn(d, m, DefaultReplacements, 0)
  \/ Count
  \/ Select
  \/ Promote
  \/ RoundEnd
  \/ \E id_seq \in ApiDecodeInputs : Decode(id_seq)
  \/ \E n \in 0..MaxPrint : PrintTopNTokens(n)

Spec == Init /\ [][Next]_vars

\* Any sequence of push, new_id, decode, decode_single and
\* print_top_n_tokens calls on one Vocabulary.
NextRegistry ==
  \/ \E tkn \in PushTokens : Within(push(Self, tkn), MaxSize) /\ Push(tkn)
  \/ \E l, r \in OperandIds :
       Within(new_id(Self, << l, r >>), MaxSize) /\ NewId(l, r)
  \/ \E id_seq \in DecodeInputs : Decode(id_seq)
  \/ \E id \in OperandIds \cup {2} : DecodeSingle(id)
  \/ \E n \in 0..MaxPrint : PrintTopNTokens(n)

SpecRegistry == Init /\ [][NextRegistry]_vars

\* One learn call on a new Vocabulary, as main and the tests make it, and
\* the decoding of what it returned.
LearnInputs ==
  ((Strings(Chars, MaxLearnText) \cup {Sample5}) \X (0..MaxMerges)
     \X (0..MaxReplacements) \X (0..MaxCutoff))
  \cup {<< Sample5, ScenarioMerges, DefaultReplacements, DefaultCutoff >>}

NextLearn ==
  \/ \E in \in LearnInputs : learns = 0 /\ Learn(in[1], in[2], in[3], in[4])
  \/ Count
  \/ Select
  \/ Promote
  \/ RoundEnd
  \/ pc = "done" /\ Decode(text)

SpecLearn == Init /\ [][NextLearn]_vars

\* The steps of the body of learn.  learn is sequential code that runs from
\* its call to its return with nothing to wait for, so a step of it that
\* can be taken is taken.
LearnStep == Count \/ Select \/ Promote \/ RoundEnd

\* One call of learn on a new Vocabulary, run to its return.
TerminationInputs ==
  Strings(Chars, MaxLearnText) \X (0..MaxMerges)
    \X (0..MaxReplacements) \X (0..MaxCutoff)

NextTermination ==
  \/ \E in \in TerminationInputs : learns = 0 /\ Learn(in[1], in[2], in[3], in[4])
  \/ Count
  \/ Select
  \/ Promote
  \/ RoundEnd

SpecLearnFair == Init /\ [][NextTermination]_vars /\ WF_vars(LearnStep)

\* One call of learn, to the full budget, on every Vocabulary that direct
\* push and new_id calls can leave: the Compositions that learn promotes
\* may be registered already, and the text is long enough for the promoted
\* digram to overlap itself and to stand next to other ids.
NextReuse ==
  \/ \E tkn \in PushTokens :
       learns = 0 /\ Within(push(Self, tkn), MaxDirect) /\ Push(tkn)
  \/ \E l, r \in OperandIds :
       learns = 0 /\ Within(new_id(Self, << l, r >>), MaxDirect) /\ NewId(l, r)
  \/ \E d \in Strings(Chars, MaxReuseText), r \in 1..MaxReplacements :
       learns = 0 /\ Learn(d, MaxMerges, r, 0)
  \/ Count
  \/ Select
  \/ Promote
  \/ RoundEnd

SpecReuse == Init /\ [][NextReuse]_vars

\* top_n_digrams on any count table: learn stands at its selection with the
\* table, n and min drawn from bounded sets.
CountTables ==
  UNION {[keys -> 0..MaxCount] : keys \in SUBSET (OperandIds \X OperandIds)}

InitSelect ==
  /\ tkns = NewVocabulary.tkns /\ ids = NewVocabulary.ids /\ size = NewVocabulary.size
  /\ id_to_string = None
  /\ pc = "selecting"
  /\ counts \in CountTables
  /\ replacements \in 0..MaxN
  /\ cutoff \in 0..MaxCount
  /\ merges = 1
  /\ data = << >> /\ cur_i = 0 /\ round = 0 /\ text = << >>
  /\ top_digrams = << >>
  /\ op = << "learn" >> /\ ret = None /\ s = << >> /\ printed = << >>
  /\ fault = "none"
  /\ order = << >> /\ stale = FALSE /\ learns = 1

SpecSelect == InitSelect /\ [][Select]_vars

\* ------------------------------------------------------------------ claims

\* The number of positions of seq at which the pair (a, b) stands.
Occurrences(seq, a, b) ==
  Cardinality({i \in 1..(Len(seq) - 1) : seq[i] = a /\ seq[i + 1] = b})

\* No digram of text has a count above min.
NoEligible(seq, min) ==
  \A i \in 1..(Len(seq) - 1) : Occurrences(seq, seq[i], seq[i + 1]) <= min

\* The concatenation of a sequence of strings.
RECURSIVE Concat(_)
Concat(strs) == IF strs = << >> THEN << >> ELSE Head(strs) \o Concat(Tail(strs))

\* Every entry of cache is the full expansion of its id in symbols: a leaf
\* maps to its character, a composite to the texts of its operands, in order.
FullExpansions(cache, symbols) ==
  \A id \in DOMAIN cache :
    /\ id \in DOMAIN symbols
    /\ IF IsUnit(symbols[id]) THEN cache[id] = << symbols[id][2] >>
       ELSE /\ symbols[id][2] \in DOMAIN cache
            /\ symbols[id][3] \in DOMAIN cache
            /\ cache[id] = cache[symbols[id][2]] \o cache[symbols[id][3]]

\* C1: learn on a Vocabulary on which decode was not called before, then
\* decode of the returned ids, gives back exactly the text learned.
RoundTrip ==
  (pc = "done" /\ ~stale /\ op[1] = "decode" /\ op[2] = text)
    => (fault = "none" /\ s = data)

\* The round trip of learn and decode when learn is the first call made on
\* the Vocabulary.
RoundTripNew ==
  (pc = "done" /\ op[1] = "decode") => (fault = "none" /\ s = data)

\* C2: the promotions made by a learn call never exceed merges.
MergeBudget ==
  pc # "idle" => cur_i <= merges

\* The learn call of test_token_decoding2 with the driver's parameters.
Scenario ==
  /\ data = Sample5 /\ merges = ScenarioMerges
  /\ replacements = DefaultReplacements /\ cutoff = DefaultCutoff

\* C3: learning "aaabdaaabac" on a new Vocabulary with 10 merges, one
\* replacement and cutoff 1 returns 5 ids, whatever the order of equal
\* counts, and they decode to "aaabdaaabac".
ConcreteScenario ==
  (Scenario /\ pc = "done")
    => /\ Len(text) = 5
       /\ op[1] = "decode" => (fault = "none" /\ s = Sample5)
\* The scenario decoded, on the run where the tie of round two went to "ab".
ScenarioDecoded ==
  /\ Scenario /\ pc = "done" /\ op[1] = "decode"
  /\ Len(text) = 5 /\ s = Sample5
  /\ Composition(0, 1) \in DOMAIN ids

\* C4: the ids are exactly 0..size-1, distinct symbols have distinct ids,
\* and the k-th distinct symbol registered has id k.
DenseIds ==
  /\ DOMAIN tkns = 0..(size - 1)
  /\ {ids[tkn] : tkn \in DOMAIN ids} = 0..(size - 1)
  /\ \A t1, t2 \in DOMAIN ids : t1 # t2 => ids[t1] # ids[t2]
  /\ Len(order) = size
  /\ \A k \in 1..Len(order) :
       /\ order[k] \in DOMAIN ids
       /\ ids[order[k]] = k - 1
       /\ tkns[k - 1] = order[k]
\* Three distinct symbols were registered, the last by push.
ThreeRegistered ==
  /\ size >= 3 /\ op[1] = "push" /\ ret = Some(size - 1)
  /\ \E k \in 1..Len(order) : ~IsUnit(order[k])

\* C5: push of a symbol already registered returns its id and leaves the
\* size and both mappings as they were.
DedupIdempotence ==
  [][(op'[1] = "push" /\ op'[2] \in DOMAIN ids)
       => /\ ret' = Some(ids[op'[2]])
          /\ size' = size /\ tkns' = tkns /\ ids' = ids]_vars
\* A Composition was pushed again: the id returned is not the newest one.
CompositionPushedAgain ==
  /\ op[1] = "push" /\ ~IsUnit(op[2])
  /\ ret = Some(ids[op[2]]) /\ ids[op[2]] < size - 1
  /\ \E tkn \in DOMAIN ids : IsUnit(tkn)

\* C6: both operands of every Composition are registered and smaller than
\* the id of the Composition.
AcyclicExpansion ==
  \A id \in DOMAIN tkns :
    ~IsUnit(tkns[id])
      => /\ tkns[id][2] \in DOMAIN tkns /\ tkns[id][3] \in DOMAIN tkns
         /\ tkns[id][2] < id /\ tkns[id][3] < id

\* C7: the cache is built by the first decode (called directly or by
\* print_top_n_tokens) from the symbols registered then and never changes; a later decode appends, for each id of the cache,
\* its full expansion, nothing for any other id, and does not fail.
CacheSnapshot ==
  [][/\ (is_none(id_to_string) /\ ~is_none(id_to_string'))
          => /\ op'[1] \in {"decode", "print_top_n_tokens"}
             /\ DOMAIN unwrap(id_to_string') = DOMAIN tkns
     /\ ~is_none(id_to_string)
          => /\ id_to_string' = id_to_string
             /\ FullExpansions(unwrap(id_to_string), tkns')
             /\ op'[1] = "decode"
                  => /\ fault' = "none"
                     /\ LET cache == unwrap(id_to_string)
                            known == SelectSeq(op'[2], LAMBDA id : id \in DOMAIN cache)
                        IN s' = Concat([i \in 1..Len(known) |-> cache[known[i]]])]_vars
\* learn was called after a decode and its result decoded: one of its ids is
\* in the cache, another was registered after the cache was built.
StaleDecode ==
  /\ pc = "done" /\ stale /\ op[1] = "decode" /\ op[2] = text
  /\ ~is_none(id_to_string)
  /\ \E i, j \in 1..Len(text) :
       /\ text[i] \in DOMAIN unwrap(id_to_string)
       /\ text[j] \in DOMAIN tkns \ DOMAIN unwrap(id_to_string)
  /\ s # << >> /\ s # data

\* C8: a round that starts with no digram above cutoff ends learn: nothing
\* is promoted or registered and text is returned as it is.
EarlyTermination ==
  [][(pc \in {"counting", "selecting"} /\ NoEligible(text, cutoff))
       => /\ pc' \in {"selecting", "done"}
          /\ pc = "selecting" => pc' = "done"
          /\ text' = text /\ cur_i' = cur_i
          /\ tkns' = tkns /\ ids' = ids /\ size' = size]_vars
\* learn returned after a promotion, with rounds and merges left.
EarlyStop ==
  /\ pc = "done" /\ replacements > 0
  /\ cur_i > 0 /\ cur_i < merges /\ round < merges
  /\ NoEligible(text, cutoff) /\ Len(text) >= 2

\* C9: the selection has at most n entries, all of the table and above the
\* cutoff, in non-increasing order of count, and no entry left out is more
\* common than one selected.
BoundedSelection ==
  [][pc = "selecting"
       => LET out == top_digrams'
              chosen == {out[i][1] : i \in 1..Len(out)}
          IN /\ Len(out) <= replacements
             /\ \A i \in 1..Len(out) :
                  /\ out[i][1] \in DOMAIN counts
                  /\ out[i][2] = counts[out[i][1]]
                  /\ out[i][2] > cutoff
             /\ \A i, j \in 1..Len(out) : i < j => out[i][2] >= out[j][2]
             /\ \A i, j \in 1..Len(out) : i # j => out[i][1] # out[j][1]
             /\ \A k \in DOMAIN counts \ chosen, i \in 1..Len(out) :
                  counts[k] > cutoff => counts[k] <= out[i][2]]_vars
\* Two pairs were selected in falling order of count and an eligible pair
\* was left out.
SelectionTruncated ==
  /\ pc = "rewriting" /\ Len(top_digrams) = 2 /\ replacements = 2
  /\ top_digrams[1][2] > top_digrams[2][2]
  /\ Cardinality({k \in DOMAIN counts : counts[k] > cutoff}) > 2

\* The number of distinct characters of str before the first ch.
FirstIndex(str, ch) ==
  CHOOSE i \in 1..Len(str) : str[i] = ch /\ \A j \in 1..(i - 1) : str[j] # ch
Rank(str, ch) == Cardinality({str[j] : j \in 1..(FirstIndex(str, ch) - 1)})

\* C10: learn with merges = 0 on a new Vocabulary returns one id per
\* character, the id of its leaf, numbered by first occurrence, and
\* registers no Composition.
ZeroMergeIdentity ==
  (pc = "done" /\ merges = 0)
    => /\ text = [i \in 1..Len(data) |-> Rank(data, data[i])]
       /\ \A i \in 1..Len(data) : tkns[text[i]] = Unit(data[i])
       /\ \A id \in DOMAIN tkns : IsUnit(tkns[id])
       /\ size = Cardinality({data[i] : i \in 1..Len(data)})
       /\ cur_i = 0
\* learn returned with merges = 0 from a text that has a digram to promote.
ZeroMergeReturned ==
  /\ pc = "done" /\ merges = 0 /\ replacements > 0
  /\ Len(data) >= 3 /\ ~NoEligible(text, cutoff)
  /\ \E i, j \in 1..Len(data) : i < j /\ data[i] = data[j]

\* C11: decode_single on an unregistered id fails with UnknownSymbol, while
\* decode given that id in its list does not fail, appends nothing for it
\* and appends the expansions of all the other ids in their order.
StrictLenient ==
  /\ (op[1] = "decode_single" /\ op[2] \notin DOMAIN tkns)
       => fault = "UnknownSymbol"
  /\ (op[1] = "decode" /\ \E i \in 1..Len(op[2]) : op[2][i] \notin DOMAIN tkns)
       => /\ fault = "none"
          /\ LET others == SelectSeq(op[2], LAMBDA id : id \in DOMAIN tkns)
             IN s = Concat([i \in 1..Len(others) |-> decode_single(tkns, others[i], 1).str])

\* The asymmetry as the code has it: decode_single fails on an unregistered
\* id; a decode that has its cache fails on no id and appends exactly the
\* cached texts, in order.
StrictLenientCached ==
  /\ (op[1] = "decode_single" /\ op[2] \notin DOMAIN tkns)
       => fault = "UnknownSymbol"
  /\ (op[1] = "decode" /\ ~is_none(id_to_string))
       => /\ fault = "none"
          /\ LET cache == unwrap(id_to_string)
                 known == SelectSeq(op[2], LAMBDA id : id \in DOMAIN cache)
             IN s = Concat([i \in 1..Len(known) |-> cache[known[i]]])

\* C12: new_id with an unregistered operand returns None and leaves the
\* Vocabulary as it was; with both operands registered it returns the id
\* of Composition(left, right), allocating an id only when that
\* Composition was not registered yet.
CheckedComposition ==
  [][op'[1] = "new_id" =>
      LET idleft == op'[2]
          idright == op'[3]
          tkn == Composition(idleft, idright)
      IN IF idleft \in DOMAIN tkns /\ idright \in DOMAIN tkns
         THEN /\ ~is_none(ret')
              /\ tkns'[unwrap(ret')] = tkn
              /\ ids'[tkn] = unwrap(ret')
              /\ IF tkn \in DOMAIN ids
                 THEN unwrap(ret') = ids[tkn] /\ UNCHANGED vocabulary
                 ELSE /\ unwrap(ret') = size
                      /\ size' = size + 1
                      /\ tkns' = insert(tkns, size, tkn)
                      /\ ids' = insert(ids, tkn, size)
         ELSE is_none(ret') /\ UNCHANGED vocabulary]_vars

\* new_id was refused for one registered and one unregistered operand.
CompositionRefused ==
  /\ op[1] = "new_id"
  /\ op[2] \in DOMAIN tkns /\ op[3] \notin DOMAIN tkns
  /\ is_none(ret)
  /\ size > 0

\* C13: in every round the count table used for selection maps each pair
\* of adjacent ids exactly to the number of positions where it occurs in
\* the current sequence: nothing is left over from an earlier round and no
\* pair that does not occur has an entry; [1,2,1,2,1] gives (1,2) -> 2 and
\* (2,1) -> 2.
ExactCounts ==
  /\ digram_count(<< 1, 2, 1, 2, 1 >>, EmptyMap, 1)
       = [k \in {<< 1, 2 >>, << 2, 1 >>} |-> 2]
  /\ pc = "selecting" =>
       /\ DOMAIN counts = {<< text[i], text[i + 1] >> : i \in 1..(Len(text) - 1)}
       /\ \A k \in DOMAIN counts : counts[k] = Occurrences(text, k[1], k[2])

\* The table of a later round, with a pair that occurs twice.
SecondRoundCounted ==
  /\ pc = "selecting" /\ round >= 1
  /\ \E k \in DOMAIN counts : counts[k] >= 2

\* C14: the digrams selected in one round are promoted in order of
\* non-decreasing count (the selected list is used from its back to its
\* front), and the Composition ids are assigned in that same order: each
\* promotion takes from the list a digram whose count no digram left in the
\* list is below, and gives its Composition the next id.
ProcessingOrder ==
  [][(pc = "rewriting" /\ cur_i' = cur_i + 1) =>
      /\ size' = size + 1
      /\ tkns'[size][1] = "Composition"
      /\ LET digram == << tkns'[size][2], tkns'[size][3] >>
         IN /\ \E i \in 1..Len(top_digrams) :
                 /\ top_digrams[i][1] = digram
                 /\ \A j \in 1..Len(top_digrams') :
                      top_digrams'[j][2] >= top_digrams[i][2]
            /\ \A j \in 1..Len(top_digrams') : top_digrams'[j][1] # digram
            /\ Len(top_digrams') = Len(top_digrams) - 1]_vars

\* Two digrams were selected and the one with the lower count has been
\* promoted first.
LowerCountFirst ==
  /\ pc = "rewriting" /\ Len(top_digrams) = 1 /\ size >= 1
  /\ tkns[size - 1][1] = "Composition"
  /\ LET digram == << tkns[size - 1][2], tkns[size - 1][3] >>
     IN /\ digram \in DOMAIN counts
        /\ counts[digram] < top_digrams[1][2]

\* The reference scan, position by position: a match starts at i when the
\* elements at i and i + 1 are (a, b) and no match started at i - 1.
ScanStarts(seq, a, b) ==
  LET starts[i \in 0..Len(seq)] ==
        IF i = 0 THEN FALSE
        ELSE i < Len(seq) /\ seq[i] = a /\ seq[i + 1] = b /\ ~starts[i - 1]
  IN starts

\* Its output: z at every start of a match, nothing for the element a match
\* consumed, the element itself everywhere else.
ReferenceScan(seq, a, b, z) ==
  LET starts == ScanStarts(seq, a, b)
      kept == SelectSeq([i \in 1..Len(seq) |-> i], LAMBDA i : ~starts[i - 1])
  IN [k \in 1..Len(kept) |-> IF starts[kept[k]] THEN z ELSE seq[kept[k]]]

\* C15: the sequence produced by one promotion of (a, b) with Composition
\* id z is the result of the reference left-to-right scan; overlapping
\* occurrences merge from the left ([a,a,a] becomes [z,a]) and the last
\* element is emitted whenever no match consumed it.
RewriteRule ==
  [][(pc = "rewriting" /\ cur_i' = cur_i + 1) =>
      LET digram == top_digrams[Len(top_digrams)][1]
          a == digram[1]
          b == digram[2]
          z == ids'[Composition(a, b)]
          n == Len(text)
      IN /\ text' = ReferenceScan(text, a, b, z)
         /\ rewrite(<< a, a, a >>, << a, a >>, z, 1) = << z, a >>
         /\ (n > 0 /\ ~ScanStarts(text, a, b)[n - 1])
              => (text' # << >> /\ text'[Len(text')] = text[n])]_vars

\* "aaa" after the promotion of (a, a): the Composition, then the last a.
GreedyFromLeft ==
  /\ data = << ChA, ChA, ChA >>
  /\ cur_i = 1
  /\ text = << ids[Composition(ids[Unit(ChA)], ids[Unit(ChA)])], ids[Unit(ChA)] >>

\* C16: at every point of every run of learn, every id of the current
\* sequence and both ids of every selected digram are registered, so new_id
\* never returns None inside learn and the unwrap of None is unreachable,
\* also when the Vocabulary held symbols before the call.
NoIntegrityFault ==
  /\ fault # "UnwrapNone"
  /\ pc \in {"counting", "selecting", "rewriting", "done"} =>
       /\ \A i \in 1..Len(text) : text[i] \in DOMAIN tkns
       /\ \A j \in 1..Len(top_digrams) :
            /\ top_digrams[j][1][1] \in DOMAIN tkns
            /\ top_digrams[j][1][2] \in DOMAIN tkns

\* A promotion made by a learn on a Vocabulary that held, from before the
\* call, a Composition of an operand no lower than its own id.
PromotedOnOldVocabulary ==
  /\ pc \in {"rewriting", "counting", "done"}
  /\ cur_i >= 1
  /\ \E id \in DOMAIN tkns :
       tkns[id][1] = "Composition" /\ tkns[id][2] >= id

\* C17: every run of learn reaches done and returns, for any text, merges,
\* replacements and cutoff; it runs at most merges rounds, and it ends only
\* because the merge budget is used up or because the selection of a round
\* is empty.
Termination ==
  /\ [](round <= merges)
  /\ [](pc = "done" =>
          \/ cur_i >= merges
          \/ replacements = 0
          \/ NoEligible(text, cutoff))
  /\ (pc \in {"counting", "selecting", "rewriting"})
       ~> (pc = "done" /\ fault = "none")

\* A run that ended after merges rounds with digrams still eligible.
BudgetUsedUp ==
  /\ pc = "done" /\ merges >= 2 /\ round = merges
  /\ replacements >= 1
  /\ ~NoEligible(text, cutoff)

\* The ids of a sequence.
Elements(seq) == {seq[i] : i \in 1..Len(seq)}

\* The promotion about to be made is the first of its round: the selected
\* list is as the selection left it.
FirstOfRound ==
  LET eligible == Cardinality({k \in DOMAIN counts : counts[k] > cutoff})
  IN Len(top_digrams) = IF eligible < replacements THEN eligible ELSE replacements

\* C18: every promotion of learn shortens the current sequence by at least
\* one element, for any replacements >= 1, and the id of its Composition is
\* in the sequence right after it.
PromotionShortens ==
  [][(pc = "rewriting" /\ cur_i' = cur_i + 1) =>
      LET digram == top_digrams[Len(top_digrams)][1]
      IN /\ Len(text') < Len(text)
         /\ ids'[Composition(digram[1], digram[2])] \in Elements(text')]_vars

\* C18, as the code has it: no promotion lengthens the sequence; a
\* promotion whose digram still occurs in the sequence shortens it by at
\* least one and leaves the id of its Composition in it, and the first
\* promotion of every round is such a promotion; hence the sequence is at
\* most the character count minus the number of rounds long, and minus
\* the number of promotions when replacements = 1.
PromotionNeverLengthens ==
  /\ [][(pc = "rewriting" /\ cur_i' = cur_i + 1) =>
         LET digram == top_digrams[Len(top_digrams)][1]
             occurs == Occurrences(text, digram[1], digram[2]) >= 1
         IN /\ Len(text') <= Len(text)
            /\ FirstOfRound => occurs
            /\ occurs =>
                 /\ Len(text') < Len(text)
                 /\ ids'[Composition(digram[1], digram[2])] \in Elements(text')]_vars
  /\ [](pc # "idle" =>
          /\ Len(text) + round <= Len(data)
          /\ replacements = 1 => Len(text) + cur_i <= Len(data))

\* The second promotion of a round left the sequence as long as it was.
PromotionWithoutEffect ==
  /\ replacements = 2 /\ round = 0 /\ cur_i = 2
  /\ Len(text) = Len(data) - 1

\* C19: right after the promotion of a digram (a, b) the rewritten sequence
\* has no position holding a followed by b, also when a = b and also when
\* Composition(a, b) was registered before and its id is reused.
DigramGone ==
  [][(pc = "rewriting" /\ cur_i' = cur_i + 1) =>
      LET digram == top_digrams[Len(top_digrams)][1]
      IN Occurrences(text', digram[1], digram[2]) = 0]_vars

\* In a text of three ids or more the digram (a, a) was promoted to a
\* Composition registered before the call (before its own operand was),
\* and the reused id stands in the sequence before another id.
ReusedIdPromoted ==
  /\ pc = "rewriting" /\ cur_i = 1
  /\ Len(data) >= 3 /\ Len(text) >= 2
  /\ tkns[text[1]][1] = "Composition"
  /\ tkns[text[1]][2] = tkns[text[1]][3]
  /\ text[1] < tkns[text[1]][2]
  /\ text[2] = tkns[text[1]][2]

====
